---- MODULE Spec2Model ----
(***************************************************************************)
(* Model of the lead acquisition pipeline of Prospexv2:                    *)
(*   src/src/app/api/scrape/route.ts  (search, dedupe, location filter,    *)
(*                                     website enrichment)                 *)
(*   src/src/components/layout/LayoutWrapper.tsx  (calculateLeadScore)     *)
(*   src/src/lib/utils.ts  (getGradeFromScore, getPriorityFromScore)       *)
(*   src/src/app/pipeline/page.tsx  (handleSaveAll)                        *)
(*   src/src/app/api/enrich/route.ts, src/src/app/api/score/route.ts,      *)
(*   src/src/app/api/import/route.ts  (enrich, score, import and audit of  *)
(*                                     stored leads)                       *)
(*   src/unnamed/part_000  (the table public.leads)                        *)
(* Strings that the code lower-cases, trims or searches are sequences of   *)
(* one-character strings; opaque values (email, phone, website, handle)    *)
(* are TLA+ strings with Null for the JavaScript null.                     *)
(***************************************************************************)
EXTENDS Integers, Sequences, FiniteSets, TLC

VARIABLES
  call,         \* harness for the pure steps: operation, argument, result
  niche,        \* request body of POST /api/scrape
  location,
  source,
  env,          \* names of the configured process.env keys
  pc,           \* position of the POST handler
  st,           \* per adapter: "idle", "running" or "settled"
  stage,        \* per adapter: strategy whose outbound call is in flight
  results,      \* POST: let results
  errors,       \* POST: const errors
  sourceStats,  \* POST: const sourceStats
  response,     \* the NextResponse.json(...) sent, or NoResponse
  threw,        \* history: adapters whose promise was rejected
  upstream,     \* history: adapters one of whose provider calls came back
                \* non-2xx or with a body that is not JSON
  got,          \* history: per adapter, the list it fulfilled with
  unique,       \* POST: the de-duplicated LeadResult objects, mutated in place
  given,        \* enrichLeadsBatch: leads, as indices into unique
  maxConcurrent,
  needsEnrichment,
  alreadyComplete,
  batchStart,   \* enrichLeadsBatch: the loop variable i
  task,         \* per lead started so far: state of its enrichFromWebsite call
  enriched,     \* enrichLeadsBatch: const enriched
  before,       \* history: the leads as they were when enrichLeadsBatch began
  fetches,      \* history: per lead, the outbound crawl requests made for it
  leadsTable,   \* the rows of the table public.leads, a row's id is its index
  req           \* per client of the store: the request it is running

avars == <<niche, location, source, env, pc, st, stage, results, errors,
           sourceStats, response, threw, upstream, got>>

evars == <<unique, given, maxConcurrent, needsEnrichment, alreadyComplete,
           batchStart, task, enriched, before, fetches>>

dvars == <<leadsTable, req>>

svars == <<avars, evars, dvars>>

vars == <<call, svars>>

\* ------------------------------------------------------------------------
\* Bounds of the model
\* ------------------------------------------------------------------------
MaxLen == 3
MaxRun == 31

\* ------------------------------------------------------------------------
\* JavaScript string primitives
\* ------------------------------------------------------------------------
Null == "null"

Falsy(v) == v = Null \/ v = ""

IsSpace(c) == c = " "

LowerChar(c) ==
  CASE c = "A" -> "a"
    [] c = "B" -> "b"
    [] c = "C" -> "c"
    [] c = "D" -> "d"
    [] c = "L" -> "l"
    [] c = "X" -> "x"
    [] OTHER -> c

ToLowerCase(s) == [i \in 1..Len(s) |-> LowerChar(s[i])]

RECURSIVE TrimStart(_)
TrimStart(s) ==
  IF s # <<>> /\ IsSpace(Head(s)) THEN TrimStart(Tail(s)) ELSE s

RECURSIVE TrimEnd(_)
TrimEnd(s) ==
  IF s # <<>> /\ IsSpace(s[Len(s)]) THEN TrimEnd(SubSeq(s, 1, Len(s) - 1)) ELSE s

Trim(s) == TrimEnd(TrimStart(s))

Includes(hay, needle) ==
  \E i \in 1..(Len(hay) + 1) :
    /\ i + Len(needle) - 1 <= Len(hay)
    /\ SubSeq(hay, i, i + Len(needle) - 1) = needle

\* Array.prototype.slice(from, to) with 0-based from, exclusive to
Slice(s, from, to) ==
  SubSeq(s, from + 1, IF to < Len(s) THEN to ELSE Len(s))

\* ------------------------------------------------------------------------
\* De-duplicate by business name (POST, scrape route)
\* ------------------------------------------------------------------------
MinKeyLen == 2

DedupeKeyMut(r) == Trim(r.business_name)

DedupeKey(r) == Trim(ToLowerCase(r.business_name))

DedupeDropsBlankMut(r, key, seen) ==
  \/ key # <<>> /\ Len(key) < MinKeyLen
  \/ key \in seen

DedupeDropsMut(r, key, seen) ==
  \/ r.business_name = <<>>
  \/ key = <<>>
  \/ key \in seen

DedupeDrops(r, key, seen) ==
  \/ r.business_name = <<>>
  \/ key = <<>>
  \/ Len(key) < MinKeyLen
  \/ key \in seen

RECURSIVE DedupeFrom(_, _, _)
DedupeFrom(rs, i, seen) ==
  IF i > Len(rs) THEN <<>>
  ELSE LET r   == rs[i]
           key == DedupeKey(r)
       IN  IF DedupeDrops(r, key, seen)
           THEN DedupeFrom(rs, i + 1, seen)
           ELSE <<r>> \o DedupeFrom(rs, i + 1, seen \cup {key})

Dedupe(rs) == DedupeFrom(rs, 1, {})

\* ------------------------------------------------------------------------
\* Location filter (scrapeGoogleMaps)
\* ------------------------------------------------------------------------
SliceLimit == 30

InLocationMut(r, searchLocation) ==
  LET loc == Trim(ToLowerCase(searchLocation))
  IN  Includes(r.address, loc) \/ Includes(r.city, loc) \/ r.city = loc

InLocation(r, searchLocation) ==
  LET address == ToLowerCase(r.address)
      city    == ToLowerCase(r.city)
      loc     == Trim(ToLowerCase(searchLocation))
  IN  Includes(address, loc) \/ Includes(city, loc) \/ city = loc

LocationFilterMut(mapped, searchLocation) ==
  Slice(SelectSeq(mapped, LAMBDA r : InLocation(r, searchLocation)), 0, SliceLimit)

LocationFilter(mapped, searchLocation) ==
  LET filtered == SelectSeq(mapped, LAMBDA r : InLocation(r, searchLocation))
  IN  IF Len(filtered) > 0
      THEN Slice(filtered, 0, SliceLimit)
      ELSE Slice(mapped, 0, SliceLimit)

\* ------------------------------------------------------------------------
\* Candidates (LeadResult) and what the providers can answer
\* ------------------------------------------------------------------------
Lead(id, name, address, city, phone, email, website, ig, src) ==
  [id |-> id, business_name |-> name, address |-> address, city |-> city,
   phone |-> phone, email |-> email, website |-> website,
   instagram_url |-> ig, source |-> src]

Adapters == <<"google_maps", "yelp", "fresha", "yell", "yellow_pages", "bark">>

AdapterIdx == 1..Len(Adapters)

\* Outscraper items; city <<>> stands for an item without a city field,
\* name <<>> for an item without a name
GmItems ==
  << [id |-> 10, name |-> <<>>, address |-> <<"l">>, city |-> <<"l">>,
      phone |-> Null, email |-> Null, site |-> Null, instagram |-> Null],
     [id |-> 11, name |-> <<"a", "b">>, address |-> <<"x", "L", "x">>, city |-> <<>>,
      phone |-> Null, email |-> Null, site |-> "https://www.acme.com/", instagram |-> Null],
     [id |-> 12, name |-> <<" ">>, address |-> <<>>, city |-> <<"l">>,
      phone |-> "020 7946 0001", email |-> Null, site |-> Null, instagram |-> Null],
     [id |-> 13, name |-> <<"e", "f">>, address |-> <<"x">>, city |-> <<"x">>,
      phone |-> Null, email |-> Null, site |-> Null, instagram |-> Null],
     [id |-> 14, name |-> <<"u", "v">>, address |-> <<"l">>, city |-> <<"L">>,
      phone |-> Null, email |-> "hello@gamma.com", site |-> "https://gamma.com",
      instagram |-> "https://www.instagram.com/gamma"] >>

\* scrapeGoogleMaps, from the parsed items to the returned list
GmMapped(items, loc) ==
  LET named == SelectSeq(items, LAMBDA it : it.name # <<>>)
  IN  [i \in 1..Len(named) |->
         Lead(named[i].id, named[i].name, named[i].address,
              IF named[i].city # <<>> THEN named[i].city ELSE loc,
              named[i].phone, named[i].email, named[i].site,
              named[i].instagram, "google_maps")]

scrapeGoogleMapsResult(items, loc) == LocationFilter(GmMapped(items, loc), loc)

YelpLead(id, name, email, website) ==
  Lead(id, name, <<>>, location, "020 7946 0002", email, website, Null, "yelp")

Letters ==
  <<"a", "b", "c", "d", "e", "f", "g", "h", "i", "j", "k", "m", "n", "o", "p", "q">>

\* a Yelp answer longer than the 15 leads POST passes to enrichLeadsBatch; its
\* last lead has a website and no email
LongAnswer ==
  [j \in 1..Len(Letters) |->
     YelpLead(100 + j, <<"z", Letters[j]>>, Null,
              IF j = Len(Letters) THEN "https://www.beta.co.uk" ELSE Null)]

\* lists a provider can answer with when its call succeeds
Answers(a, strategy) ==
  CASE a = "google_maps" ->
         { <<>>, scrapeGoogleMapsResult(GmItems, location) }
    [] a = "yelp" ->
         { <<>>,
           << YelpLead(21, <<"A", "b">>, "owner@acme.com", "https://acme.com") >>,
           << YelpLead(22, <<"g", "h">>, Null, Null),
              YelpLead(23, <<"i", "j">>, Null, Null),
              YelpLead(24, <<"k", "m">>, Null, Null),
              YelpLead(25, <<"n", "o">>, Null, Null),
              YelpLead(26, <<"p", "q">>, Null, Null) >>,
           LongAnswer }
    [] a = "fresha" ->
         { <<>>,
           << Lead(31, <<"a">>, <<"x">>, location, Null, Null, Null, Null, "fresha"),
              Lead(32, <<>>, <<"x">>, location, Null, Null, Null, Null, "fresha") >> }
    [] a = "yell" /\ strategy = "primary" ->
         { <<>>,
           << Lead(41, <<"c", "d">>, <<>>, location, Null, Null,
                   "https://www.beta.co.uk", Null, "yell") >> }
    [] a = "yell" /\ strategy = "fallback" ->
         { <<>>,
           << Lead(42, <<"c", "d", "e", "f">>, <<>>, location, Null, "info@beta.co.uk",
                   Null, Null, "yell") >> }
    [] a = "yellow_pages" /\ strategy = "primary" ->
         { <<>>,
           << Lead(51, <<"C", "D", " ">>, <<"l">>, location, "(212) 555-0101", Null,
                   Null, Null, "yellow_pages") >> }
    [] a = "yellow_pages" /\ strategy = "fallback" ->
         { <<>> }
    [] a = "bark" /\ strategy = "primary" ->
         { <<>>,
           << Lead(61, <<"r", "s", "t">>, <<>>, location, Null, Null, Null, Null, "bark") >> }
    [] OTHER ->
         { <<>> }

\* what an outbound provider call can come back with: a non-2xx status, a
\* body that is not JSON, JSON of an unexpected shape, or the expected list
FetchOutcomes == { "non2xx", "badjson", "wrongshape", "ok" }

\* ------------------------------------------------------------------------
\* The search handler: POST /api/scrape
\* ------------------------------------------------------------------------
NoResponse == [status |-> 0]

getKey(envKey) == envKey \in env

PrimaryKey(a) ==
  IF a = "google_maps" THEN "OUTSCRAPER_API_KEY" ELSE "APIFY_API_TOKEN"

HasFallback(a) == a \in { "yell", "yellow_pages", "bark" }

MayThrow(a) == a \in { "google_maps", "yelp" }

NotConfigured(a) ==
  IF a = "google_maps" THEN "Outscraper API key not configured. Add it in Settings."
  ELSE "Apify API token not configured. Add it in Settings."

UpstreamError(a, outcome) ==
  IF outcome = "badjson" THEN "Unexpected token < in JSON at position 0"
  ELSE IF a = "google_maps" THEN "Outscraper error (500): " ELSE "Yelp error (500)"

Selected(k) == source = Adapters[k] \/ source = "all"

FailFastNever(src) == FALSE

FailFastAlways(src) == TRUE

\* trySource: if (source !== 'all') throw e
FailFast(src) == src # "all"

\* the awaits of POST: adapter k starts once every requested adapter before it
\* has settled
MayStartMut(k) ==
  /\ st[k] = "idle"
  /\ Selected(k)

MayStart(k) ==
  /\ st[k] = "idle"
  /\ Selected(k)
  /\ \A j \in 1..(k - 1) : Selected(j) => st[j] = "settled"

\* trySource without the else branch that records a count of 0
trySourceFulfilledMut(k, r) ==
  /\ results' = IF Len(r) > 0 THEN results \o r ELSE results
  /\ sourceStats' = IF Len(r) > 0 THEN (Adapters[k] :> Len(r)) @@ sourceStats
                    ELSE sourceStats
  /\ st' = [st EXCEPT ![k] = "settled"]
  /\ got' = [got EXCEPT ![k] = r]
  /\ UNCHANGED <<errors, pc, response, threw>>

\* trySource, the adapter's promise fulfilled with r
trySourceFulfilled(k, r) ==
  /\ results' = IF Len(r) > 0 THEN results \o r ELSE results
  /\ sourceStats' = (Adapters[k] :> Len(r)) @@ sourceStats
  /\ st' = [st EXCEPT ![k] = "settled"]
  /\ got' = [got EXCEPT ![k] = r]
  /\ UNCHANGED <<errors, pc, response, threw>>

\* trySource, the adapter's promise rejected with an Error carrying msg
trySourceRejected(k, msg) ==
  /\ errors' = Append(errors, msg)
  /\ sourceStats' = (Adapters[k] :> 0) @@ sourceStats
  /\ st' = [st EXCEPT ![k] = "settled"]
  /\ threw' = threw \cup {k}
  /\ IF FailFast(source)
     THEN /\ pc' = "done"
          /\ response' = [status |-> 500, error |-> msg]
     ELSE UNCHANGED <<pc, response>>
  /\ UNCHANGED <<results, got>>

\* POST up to the first adapter: the request body is validated
Validate ==
  /\ pc = "start"
  /\ IF niche = <<>> \/ location = <<>>
     THEN /\ pc' = "done"
          /\ response' = [status |-> 400, error |-> "Niche and location are required"]
     ELSE /\ pc' = "adapters"
          /\ UNCHANGED response
  /\ UNCHANGED <<dvars, niche, location, source, env, st, stage, results, errors,
                 sourceStats, threw, upstream, got, call, evars, dvars>>

\* an adapter is called and runs up to its first outbound call
StartAdapter(k) ==
  /\ pc = "adapters"
  /\ MayStart(k)
  /\ LET a == Adapters[k]
     IN  IF getKey(PrimaryKey(a))
         THEN /\ st' = [st EXCEPT ![k] = "running"]
              /\ stage' = [stage EXCEPT ![k] = "primary"]
              /\ UNCHANGED <<results, errors, sourceStats, pc, response, threw, got>>
         ELSE IF HasFallback(a) /\ getKey("FIRECRAWL_API_KEY")
         THEN /\ st' = [st EXCEPT ![k] = "running"]
              /\ stage' = [stage EXCEPT ![k] = "fallback"]
              /\ UNCHANGED <<results, errors, sourceStats, pc, response, threw, got>>
         ELSE IF MayThrow(a)
         THEN /\ trySourceRejected(k, NotConfigured(a))
              /\ UNCHANGED stage
         ELSE /\ trySourceFulfilled(k, <<>>)
              /\ UNCHANGED stage
  /\ UNCHANGED <<niche, location, source, env, upstream, call, evars, dvars>>

\* history: a non-2xx response or a body response.json() rejects
Noticed(k, outcome) ==
  IF outcome \in { "non2xx", "badjson" } THEN upstream \cup {k} ELSE upstream

\* what the primary strategy of adapter a makes of its provider's answer
PrimaryResult(a, outcome, r) ==
  LET list == IF outcome = "ok" THEN r ELSE <<>>
  IN  IF MayThrow(a)
      THEN IF outcome \in { "non2xx", "badjson" }
           THEN [kind |-> "throw", msg |-> UpstreamError(a, outcome)]
           ELSE [kind |-> "return", list |-> list]
      ELSE IF list # <<>> \/ ~HasFallback(a)
           THEN [kind |-> "return", list |-> list]
           ELSE IF getKey("FIRECRAWL_API_KEY")
                THEN [kind |-> "fallback"]
                ELSE [kind |-> "return", list |-> <<>>]

\* the primary strategy's call comes back
PrimaryResponds(k) ==
  /\ pc = "adapters"
  /\ st[k] = "running"
  /\ stage[k] = "primary"
  /\ \E outcome \in FetchOutcomes, r \in Answers(Adapters[k], "primary") :
       LET res == PrimaryResult(Adapters[k], outcome, r)
       IN  /\ upstream' = Noticed(k, outcome)
           /\ CASE res.kind = "throw" ->
                     /\ trySourceRejected(k, res.msg)
                     /\ UNCHANGED stage
                [] res.kind = "return" ->
                     /\ trySourceFulfilled(k, res.list)
                     /\ UNCHANGED stage
                [] res.kind = "fallback" ->
                     /\ stage' = [stage EXCEPT ![k] = "fallback"]
                     /\ UNCHANGED <<results, errors, sourceStats, pc, response,
                                    threw, got, st>>
  /\ UNCHANGED <<niche, location, source, env, call, evars, dvars>>

\* the Firecrawl fallback's call comes back
FallbackResponds(k) ==
  /\ pc = "adapters"
  /\ st[k] = "running"
  /\ stage[k] = "fallback"
  /\ \E outcome \in FetchOutcomes, r \in Answers(Adapters[k], "fallback") :
       /\ upstream' = Noticed(k, outcome)
       /\ trySourceFulfilled(k, IF outcome = "ok" THEN r ELSE <<>>)
  /\ UNCHANGED <<niche, location, source, env, stage, call, evars, dvars>>

\* ------------------------------------------------------------------------
\* Crawled pages: the markdown's length and, in page order, what the
\* extraction regular expressions match in it
\* ------------------------------------------------------------------------
EmailTok(addr) == [kind |-> "email", addr |-> addr]

IgTok(handle) == [kind |-> "ig", handle |-> handle]

PhoneTok(text, digits) == [kind |-> "phone", text |-> text, digits |-> digits]

Page(len, tokens) == [len |-> len, tokens |-> tokens]

NoText == Page(0, <<>>)

\* allText += md + '\n'
AppendPage(text, md) == Page(text.len + md.len + 1, text.tokens \o md.tokens)

LocalOf(addr) ==
  CASE addr = "info@acme.com" -> "info"
    [] addr = "hello@acme.com" -> "hello"
    [] addr = "sales@acme.com" -> "sales"
    [] addr = "noreply@acme.com" -> "noreply"
    [] addr = "info@beta.co.uk" -> "info"
    [] addr = "someone@tracking-pixel.com" -> "someone"
    [] addr = "support@othersite.com" -> "support"
    [] addr = "contact@othersite.com" -> "contact"
    [] addr = "logo@2x.png" -> "logo"
    [] OTHER -> "owner"

DomainOf(addr) ==
  CASE addr \in { "info@acme.com", "hello@acme.com", "sales@acme.com",
                  "noreply@acme.com", "owner@acme.com" } -> "acme.com"
    [] addr = "info@beta.co.uk" -> "beta.co.uk"
    [] addr = "someone@tracking-pixel.com" -> "tracking-pixel.com"
    [] addr \in { "support@othersite.com", "contact@othersite.com" } -> "othersite.com"
    [] addr = "logo@2x.png" -> "2x.png"
    [] OTHER -> "gamma.com"

\* the filter over the regex matches: image and script extensions, noise tokens
RejectedEmail(addr) ==
  \/ DomainOf(addr) \in { "2x.png" }
  \/ LocalOf(addr) \in { "noreply", "no-reply" }
  \/ DomainOf(addr) \in { "example.com", "sentry.io", "wixpress.com", "schema.org",
                          "googleapis.com", "cloudflare.com" }

\* lead.website.replace(/https?:\/\//, '').replace(/\/$/, '').replace('www.', '')
DomainClean(website) ==
  CASE website \in { "https://www.acme.com/", "https://acme.com" } -> "acme.com"
    [] website = "https://www.beta.co.uk" -> "beta.co.uk"
    [] website = "https://gamma.com" -> "gamma.com"
    [] OTHER -> "delta.com"

prefOrder == <<"info", "hello", "contact", "enquiries", "bookings", "reception">>

PrefIdx(addr) ==
  IF \E i \in 1..Len(prefOrder) : prefOrder[i] = LocalOf(addr)
  THEN (CHOOSE i \in 1..Len(prefOrder) : prefOrder[i] = LocalOf(addr)) - 1
  ELSE 99

\* the comparator of emails.sort: negative when a sorts before b
EmailCompare(a, b, domainClean) ==
  LET aIsDomain == IF DomainOf(a) = domainClean THEN 0 ELSE 1
      bIsDomain == IF DomainOf(b) = domainClean THEN 0 ELSE 1
  IN  IF aIsDomain # bIsDomain THEN aIsDomain - bIsDomain
      ELSE PrefIdx(a) - PrefIdx(b)

\* sorted[0] of a stable sort: the first address no other address sorts before
FirstSorted(emails, domainClean) ==
  LET best == CHOOSE i \in 1..Len(emails) :
                /\ \A j \in 1..Len(emails) :
                     EmailCompare(emails[j], emails[i], domainClean) >= 0
                /\ \A j \in 1..(i - 1) :
                     EmailCompare(emails[j], emails[i], domainClean) # 0
  IN  emails[best]

ExtractEmail(text, website) ==
  LET found  == SelectSeq(text.tokens, LAMBDA t : t.kind = "email")
      emails == SelectSeq(found, LAMBDA t : ~RejectedEmail(t.addr))
  IN  IF Len(emails) > 0
      THEN FirstSorted([i \in 1..Len(emails) |-> emails[i].addr], DomainClean(website))
      ELSE Null

ReservedHandles ==
  { "p", "reel", "reels", "stories", "explore", "accounts", "about", "developer",
    "legal", "privacy", "terms", "help" }

\* `https://instagram.com/${match[1]}`
InstagramUrl(handle) ==
  CASE handle = "acme_salon" -> "https://instagram.com/acme_salon"
    [] handle = "beta.hair" -> "https://instagram.com/beta.hair"
    [] handle = "p" -> "https://instagram.com/p"
    [] OTHER -> "https://instagram.com/about"

ExtractInstagram(text) ==
  LET found     == SelectSeq(text.tokens, LAMBDA t : t.kind = "ig")
      igMatches == SelectSeq(found, LAMBDA t : t.handle \notin ReservedHandles)
  IN  IF Len(igMatches) > 0 THEN InstagramUrl(igMatches[1].handle) ELSE Null

MinDigits == 10
MaxDigits == 15

ExtractPhone(text) ==
  LET found  == SelectSeq(text.tokens, LAMBDA t : t.kind = "phone")
      phones == SelectSeq(found, LAMBDA t : t.digits >= MinDigits /\ t.digits <= MaxDigits)
  IN  IF Len(phones) > 0 THEN phones[1].text ELSE Null

\* the guards of the three assignments in enrichFromWebsite
MayFillMut(value) == TRUE

MayFill(value) == Falsy(value)

Fill(old, extracted) ==
  IF MayFill(old) /\ extracted # Null THEN extracted ELSE old

\* enrichFromWebsite after its last fetch: the lead with the fields filled in
Extracted(lead, text) ==
  IF text.len = 0 THEN lead
  ELSE [lead EXCEPT
          !.email = Fill(lead.email, ExtractEmail(text, lead.website)),
          !.instagram_url = Fill(lead.instagram_url, ExtractInstagram(text)),
          !.phone = Fill(lead.phone, ExtractPhone(text))]

HomePages ==
  { Page(0, <<>>),
    Page(400, << EmailTok("someone@tracking-pixel.com"), IgTok("p"),
                 EmailTok("support@othersite.com"), EmailTok("info@acme.com"),
                 IgTok("acme_salon"), PhoneTok("020 7946 0999", 11),
                 EmailTok("noreply@acme.com") >>) }

ContactMinLen == 100

ContactPages ==
  { Page(60, << EmailTok("sales@acme.com") >>),
    Page(300, << EmailTok("contact@othersite.com"), PhoneTok("12345", 5),
                 PhoneTok("+44 20 7946 0000", 12), IgTok("beta.hair") >>) }

contactPaths == <<"/contact", "/contact-us", "/about", "/about-us">>

\* ------------------------------------------------------------------------
\* enrichLeadsBatch and enrichFromWebsite; a lead is its index into unique
\* ------------------------------------------------------------------------
EnrichLimit == 15
PostConcurrency == 3

NeedsEnrichmentMut(l) == ~Falsy(l.website) /\ Falsy(l.email)

NeedsEnrichment(l) ==
  ~Falsy(l.website) /\ (Falsy(l.email) \/ Falsy(l.instagram_url))

\* a filter that forgets the leads with website, email and handle
IsCompleteMut(l) == Falsy(l.website)

IsComplete(l) ==
  Falsy(l.website) \/ (~Falsy(l.email) /\ ~Falsy(l.instagram_url))

IdleTask ==
  [phase |-> "done", path |-> 0, text |-> NoText, failed |-> FALSE, fetched |-> FALSE]

\* enrichFromWebsite up to its first fetch
StartedTask(l) ==
  IF Falsy(l.website) THEN IdleTask
  ELSE IF ~Falsy(l.email) /\ ~Falsy(l.instagram_url) THEN IdleTask
  ELSE IF ~getKey("FIRECRAWL_API_KEY") THEN IdleTask
  ELSE [phase |-> "home", path |-> 0, text |-> NoText, failed |-> FALSE,
        fetched |-> FALSE]

\* every remaining lead at once
BatchMut(needs, i, n) == Slice(needs, i, Len(needs))

\* needsEnrichment.slice(i, i + maxConcurrent)
Batch(needs, i, n) == Slice(needs, i, i + n)

Range(f) == { f[x] : x \in DOMAIN f }

StartedBatch(leads, batch) ==
  [i \in Range(batch) |-> StartedTask(leads[i])]

FetchesAfterStart(leads, batch) ==
  [i \in DOMAIN fetches |->
     IF i \in Range(batch) /\ StartedTask(leads[i]).phase = "home"
     THEN fetches[i] + 1 ELSE fetches[i]]

Objects(leads, order) == [j \in 1..Len(order) |-> leads[order[j]]]

Truthy(leads, field) ==
  Cardinality({ j \in 1..Len(leads) : ~Falsy(leads[j][field]) })

\* POST: the NextResponse.json of the success path; errors <<>> stands for
\* the key left out of the body
Respond(enrichedResults) ==
  /\ response' = [status |-> 200,
                  results |-> enrichedResults,
                  count |-> Len(enrichedResults),
                  sourceStats |-> sourceStats,
                  enrichmentStats |-> [withEmail |-> Truthy(enrichedResults, "email"),
                                       withPhone |-> Truthy(enrichedResults, "phone"),
                                       withInstagram |-> Truthy(enrichedResults, "instagram_url")],
                  errors |-> errors]
  /\ pc' = "done"

Min(a, b) == IF a < b THEN a ELSE b

Upto(a, b) == [j \in 1..(IF b >= a THEN b - a + 1 ELSE 0) |-> a + j - 1]

\* POST after the last adapter: de-duplicate, then enrich the first 15 leads
\* when Firecrawl is configured
FinishAdapters ==
  /\ pc = "adapters"
  /\ \A k \in AdapterIdx : Selected(k) => st[k] = "settled"
  /\ LET u         == Dedupe(results)
         toEnrich  == Upto(1, Min(EnrichLimit, Len(u)))
         needs     == SelectSeq(toEnrich, LAMBDA i : NeedsEnrichment(u[i]))
         complete  == SelectSeq(toEnrich, LAMBDA i : IsComplete(u[i]))
         batch     == Batch(needs, 0, PostConcurrency)
     IN  /\ unique' = u
         /\ before' = u
         /\ IF getKey("FIRECRAWL_API_KEY")
            THEN /\ given' = toEnrich
                 /\ maxConcurrent' = PostConcurrency
                 /\ needsEnrichment' = needs
                 /\ alreadyComplete' = complete
                 /\ batchStart' = 0
                 /\ enriched' = <<>>
                 /\ IF Len(needs) = 0
                    THEN /\ Respond(u)
                         /\ task' = << >>
                         /\ fetches' = [i \in 1..Len(u) |-> 0]
                    ELSE /\ pc' = "enrich"
                         /\ task' = StartedBatch(u, batch)
                         /\ fetches' = [i \in 1..Len(u) |->
                                          IF i \in Range(batch) /\ StartedTask(u[i]).phase = "home"
                                          THEN 1 ELSE 0]
                         /\ UNCHANGED response
            ELSE /\ Respond(u)
                 /\ fetches' = [i \in 1..Len(u) |-> 0]
                 /\ UNCHANGED <<given, maxConcurrent, needsEnrichment, alreadyComplete,
                                batchStart, task, enriched>>
  /\ UNCHANGED <<dvars, niche, location, source, env, st, stage, results, errors,
                 sourceStats, threw, upstream, got, call>>

\* a fetch that comes back with a body the code reads as if it had succeeded
FetchedTextMut(text, md, ok) == AppendPage(text, md)

\* allText after one homepage fetch: the markdown is appended when
\* response.ok, a rejected fetch or a non-2xx answer adds nothing
FetchedText(text, md, ok) == IF ok THEN AppendPage(text, md) ELSE text

\* history: whether some fetch of this lead failed, and whether some fetch
\* of it came back with response.ok
Noted(t, ok) ==
  [t EXCEPT !.failed = t.failed \/ ~ok, !.fetched = t.fetched \/ ok]

\* a task that writes what it found into every lead of the list
WriteLeadMut(leads, i, text) ==
  [j \in 1..Len(leads) |-> Extracted(leads[j], text)]

\* the assignments to lead.email, lead.instagram_url and lead.phone: the
\* task writes into the lead object it was called with
WriteLead(leads, i, text) ==
  [leads EXCEPT ![i] = Extracted(leads[i], text)]

\* enrichFromWebsite after its last fetch: extract, write into the lead, return
FinishTask(i, text, ok) ==
  /\ unique' = WriteLead(unique, i, text)
  /\ task' = [task EXCEPT ![i] = [Noted(task[i], ok) EXCEPT !.phase = "done",
                                                            !.path = 0,
                                                            !.text = text]]
  /\ UNCHANGED fetches

\* the crawl of the lead's website comes back
HomeResponds(i) ==
  /\ pc = "enrich"
  /\ i \in DOMAIN task
  /\ task[i].phase = "home"
  /\ \E md \in HomePages, ok \in BOOLEAN :
       LET text == FetchedText(task[i].text, md, ok)
       IN  IF Falsy(unique[i].email)
           THEN /\ task' = [task EXCEPT ![i] = [Noted(task[i], ok) EXCEPT
                                                  !.phase = "contact",
                                                  !.path = 1,
                                                  !.text = text]]
                /\ fetches' = [fetches EXCEPT ![i] = @ + 1]
                /\ UNCHANGED unique
           ELSE FinishTask(i, text, ok)
  /\ UNCHANGED <<dvars, avars, call, given, maxConcurrent, needsEnrichment, alreadyComplete,
                 batchStart, enriched, before>>

\* the crawl of one of the contact pages comes back
ContactResponds(i) ==
  /\ pc = "enrich"
  /\ i \in DOMAIN task
  /\ task[i].phase = "contact"
  /\ \E md \in ContactPages, ok \in BOOLEAN :
       IF ok /\ md.len > ContactMinLen
       THEN FinishTask(i, AppendPage(task[i].text, md), ok)
       ELSE IF task[i].path < Len(contactPaths)
       THEN /\ task' = [task EXCEPT ![i] = [Noted(task[i], ok) EXCEPT !.path = @ + 1]]
            /\ fetches' = [fetches EXCEPT ![i] = @ + 1]
            /\ UNCHANGED unique
       ELSE FinishTask(i, task[i].text, ok)
  /\ UNCHANGED <<dvars, avars, call, given, maxConcurrent, needsEnrichment, alreadyComplete,
                 batchStart, enriched, before>>

\* enrichLeadsBatch returns [...alreadyComplete, ...enriched]: to POST, which
\* appends the leads it did not pass and sends the response, or to a direct
\* caller
Return(list, remaining) ==
  IF call.op = "enrichLeadsBatch"
  THEN /\ call' = [call EXCEPT !.ret = list, !.returned = TRUE]
       /\ pc' = "returned"
       /\ UNCHANGED response
  ELSE /\ Respond(list \o remaining)
       /\ UNCHANGED call

\* a loop that advances by one lead instead of one batch
NextStartMut(i, n) == i + 1

\* i += maxConcurrent
NextStart(i, n) == i + n

\* Promise.all of the running batch resolves: push its leads, then start the
\* next batch or return
BatchSettled ==
  /\ pc = "enrich"
  /\ \A i \in DOMAIN task : task[i].phase = "done"
  /\ LET done      == enriched \o Batch(needsEnrichment, batchStart, maxConcurrent)
         nextStart == NextStart(batchStart, maxConcurrent)
         batch     == Batch(needsEnrichment, nextStart, maxConcurrent)
         remaining == Upto(Len(given) + 1, Len(unique))
     IN  /\ enriched' = done
         /\ batchStart' = nextStart
         /\ IF nextStart < Len(needsEnrichment)
            THEN /\ task' = StartedBatch(unique, batch) @@ task
                 /\ fetches' = FetchesAfterStart(unique, batch)
                 /\ UNCHANGED <<pc, response, call>>
            ELSE /\ Return(Objects(unique, alreadyComplete \o done),
                           Objects(unique, remaining))
                 /\ UNCHANGED <<task, fetches>>
  /\ UNCHANGED <<dvars, niche, location, source, env, st, stage, results, errors,
                 sourceStats, threw, upstream, got, unique, given, maxConcurrent,
                 needsEnrichment, alreadyComplete, before>>

\* ------------------------------------------------------------------------
\* Specification of the search handler
\* ------------------------------------------------------------------------
EnvKeys == { "OUTSCRAPER_API_KEY", "APIFY_API_TOKEN", "FIRECRAWL_API_KEY" }

Sources == Range(Adapters) \cup { "all", "tripadvisor", "undefined" }

HarnessIdle == call = [op |-> "none"]

EnrichIdle ==
  /\ unique = <<>>
  /\ given = <<>>
  /\ maxConcurrent = PostConcurrency
  /\ needsEnrichment = <<>>
  /\ alreadyComplete = <<>>
  /\ batchStart = 0
  /\ task = << >>
  /\ enriched = <<>>
  /\ before = <<>>
  /\ fetches = << >>

\* no request to the store is running
NoRequests == <<>>

StoreIdle ==
  /\ leadsTable = <<>>
  /\ req = NoRequests

AdaptersIdle ==
  /\ st = [k \in AdapterIdx |-> "idle"]
  /\ stage = [k \in AdapterIdx |-> "none"]
  /\ results = <<>>
  /\ errors = <<>>
  /\ sourceStats = << >>
  /\ response = NoResponse
  /\ threw = {}
  /\ upstream = {}
  /\ got = [k \in AdapterIdx |-> <<>>]

Init ==
  /\ HarnessIdle
  /\ niche \in { <<>>, <<"n">> }
  /\ location \in { <<>>, <<"l">> }
  /\ source \in Sources
  /\ env \in SUBSET EnvKeys
  /\ pc = "start"
  /\ AdaptersIdle
  /\ EnrichIdle
  /\ StoreIdle

Next ==
  \/ Validate
  \/ \E k \in AdapterIdx : StartAdapter(k)
  \/ \E k \in AdapterIdx : PrimaryResponds(k)
  \/ \E k \in AdapterIdx : FallbackResponds(k)
  \/ FinishAdapters
  \/ \E i \in 1..EnrichLimit : HomeResponds(i)
  \/ \E i \in 1..EnrichLimit : ContactResponds(i)
  \/ BatchSettled

Spec == Init /\ [][Next]_vars

\* the pipeline variables of the specifications of a single step
PipelineIdle ==
  /\ niche = <<>>
  /\ location = <<>>
  /\ source = "undefined"
  /\ env = {}
  /\ pc = "done"
  /\ AdaptersIdle
  /\ EnrichIdle
  /\ StoreIdle

\* ------------------------------------------------------------------------
\* Input pools
\* ------------------------------------------------------------------------
NamePool ==
  { <<>>, <<" ">>, <<" ", " ">>, <<"a">>, <<"A">>, <<" ", "a">>,
    <<"a", "b">>, <<"A", "b">>, <<"A", "B">>, <<" ", "a", "b", " ">>,
    <<"c", "d">> }

SeqsUpTo(S, n) == UNION { [1..k -> S] : k \in 0..n }

\* ------------------------------------------------------------------------
\* Specification of the de-duplication step on its own
\* ------------------------------------------------------------------------
DedupeInputs ==
  { [i \in 1..Len(ns) |-> [id |-> i, business_name |-> ns[i]]] :
      ns \in SeqsUpTo(NamePool, MaxLen) }

InitDedupe ==
  /\ PipelineIdle
  /\ \E x \in DedupeInputs :
       call = [op |-> "Dedupe", state |-> "ready", arg |-> x, ret |-> <<>>, ret2 |-> <<>>]

ApplyDedupe ==
  /\ call.op = "Dedupe"
  /\ call.state = "ready"
  /\ call' = [call EXCEPT !.state = "once", !.ret = Dedupe(call.arg)]
  /\ UNCHANGED svars

ApplyDedupeAgain ==
  /\ call.op = "Dedupe"
  /\ call.state = "once"
  /\ call' = [call EXCEPT !.state = "twice", !.ret2 = Dedupe(call.ret)]
  /\ UNCHANGED svars

NextDedupe == ApplyDedupe \/ ApplyDedupeAgain

SpecDedupe == InitDedupe /\ [][NextDedupe]_vars

\* Sub-sequence of x at the indices in I, in increasing index order
RECURSIVE PickFrom(_, _, _)
PickFrom(x, I, i) ==
  IF i > Len(x) THEN <<>>
  ELSE IF i \in I THEN <<x[i]>> \o PickFrom(x, I, i + 1)
       ELSE PickFrom(x, I, i + 1)

FirstOfKey(x, i) == \A j \in 1..(i - 1) : DedupeKey(x[j]) # DedupeKey(x[i])

DistinctKeys(x) ==
  \A i, j \in 1..Len(x) : i # j => DedupeKey(x[i]) # DedupeKey(x[j])

DedupeApplied == call.op = "Dedupe" /\ call.state # "ready"

DifferOnlyInCase(a, b) == a # b /\ ToLowerCase(a) = ToLowerCase(b)

PlacePool ==
  { [address |-> <<"x", "L", "x">>, city |-> <<"x">>],
    [address |-> <<>>,              city |-> <<"l">>],
    [address |-> <<"x">>,           city |-> <<"x">>],
    [address |-> <<"d">>,           city |-> <<"X", "L">>] }

LocationPool == { <<"l">>, <<"L", " ">>, <<"x", "l">> }

\* run1 copies of place p1 followed by run2 copies of place p2
Runs(p1, run1, p2, run2) ==
  [i \in 1..(run1 + run2) |->
     [id |-> i,
      address |-> IF i <= run1 THEN p1.address ELSE p2.address,
      city    |-> IF i <= run1 THEN p1.city ELSE p2.city]]

InitFilter ==
  /\ PipelineIdle
  /\ \E p1, p2 \in PlacePool, run1, run2 \in 0..MaxRun, loc \in LocationPool :
       call = [op |-> "Filter", state |-> "ready", location |-> loc,
               arg |-> Runs(p1, run1, p2, run2), ret |-> <<>>]

ApplyFilter ==
  /\ call.op = "Filter"
  /\ call.state = "ready"
  /\ call' = [call EXCEPT !.state = "once",
                          !.ret = LocationFilter(call.arg, call.location)]
  /\ UNCHANGED svars

NextFilter == ApplyFilter

SpecFilter == InitFilter /\ [][NextFilter]_vars

FilterApplied == call.op = "Filter" /\ call.state = "once"

\* address or city contains loc, compared without regard to letter case
ContainsLocation(r, loc) ==
  \/ Includes(ToLowerCase(r.address), ToLowerCase(loc))
  \/ Includes(ToLowerCase(r.city), ToLowerCase(loc))

Matching(x, loc) == { i \in 1..Len(x) : ContainsLocation(x[i], loc) }

FirstN(x, n) == SubSeq(x, 1, IF Len(x) < n THEN Len(x) ELSE n)

\* C7 (as stated): a non-empty input gives a non-empty output, and when no
\* candidate matches the requested location the output is the unfiltered input.
C7_Original ==
  (FilterApplied /\ Len(call.arg) >= 1) =>
    /\ Len(call.ret) >= 1
    /\ Matching(call.arg, call.location) = {} => call.ret = call.arg

\* C7 (amended): a non-empty input gives a non-empty output, and when no
\* candidate matches the requested location (trimmed) the output is the
\* first 30 entries of the unfiltered input, the whole input when it has at
\* most 30 entries.
C7_FilterNeverEmpties ==
  (FilterApplied /\ Len(call.arg) >= 1) =>
    /\ Len(call.ret) >= 1
    /\ Matching(call.arg, Trim(call.location)) = {}
         => call.ret = FirstN(call.arg, 30)

C7_Witness ==
  /\ FilterApplied
  /\ Len(call.arg) > 30
  /\ Matching(call.arg, Trim(call.location)) = {}
  /\ Len(call.ret) = 30
  /\ call.ret[30] = call.arg[30]

\* C8 (as stated): when at least one candidate matches, the output is exactly
\* the candidates whose address or city contains the requested location as a
\* case-insensitive substring, in input order, none left out.
C8_Original ==
  (FilterApplied /\ Matching(call.arg, call.location) # {}) =>
    call.ret = PickFrom(call.arg, Matching(call.arg, call.location), 1)

\* C8 (amended): when at least one candidate matches, the output is the first
\* 30 (all, when there are at most 30) of the candidates whose address or city
\* contains the requested location, trimmed of surrounding whitespace, as a
\* case-insensitive substring, in input order.
C8_FilterKeepsMatches ==
  (FilterApplied /\ Matching(call.arg, Trim(call.location)) # {}) =>
    call.ret = FirstN(PickFrom(call.arg, Matching(call.arg, Trim(call.location)), 1), 30)

C8_Witness ==
  /\ FilterApplied
  /\ Cardinality(Matching(call.arg, Trim(call.location))) = 2
  /\ Len(call.arg) = 5
  /\ ~ContainsLocation(call.arg[1], Trim(call.location))
  /\ call.location # Trim(call.location)
  /\ Len(call.ret) = 2
  /\ call.ret[1].id = 4

\* ------------------------------------------------------------------------
\* Properties of the search handler
\* ------------------------------------------------------------------------
SingleSource == source \in Range(Adapters)

Answered == pc = "done" /\ response # NoResponse

\* C1: in single-source mode a failing adapter makes the handler answer with
\* an error that carries the adapter's failure, and with no result set.
C1_SingleSourceFailFast ==
  (SingleSource /\ threw # {}) =>
    /\ pc = "done"
    /\ response.status = 500
    /\ response.error = errors[Len(errors)]
    /\ "results" \notin DOMAIN response

C1_Witness ==
  /\ source = "yelp"
  /\ threw = {2}
  /\ response = [status |-> 500, error |-> "Yelp error (500)"]

IdsOf(list) == { list[j].id : j \in 1..Len(list) }

\* C2: in all-sources mode, whichever adapters fail, every adapter is run, the
\* handler answers without a hard error, errors has one entry per failed
\* adapter, and every result was returned by an adapter that succeeded.
C2_AllSourcesBestEffort ==
  (source = "all" /\ pc # "start" /\ niche # <<>> /\ location # <<>>) =>
    /\ response.status \in {0, 200}
    /\ Len(errors) = Cardinality(threw)
    /\ Answered =>
         /\ \A k \in AdapterIdx : st[k] = "settled"
         /\ response.errors = errors
         /\ IdsOf(response.results) \subseteq
              UNION { IdsOf(got[k]) : k \in AdapterIdx \ threw }

C2_Witness ==
  /\ source = "all"
  /\ Answered
  /\ threw = {1}
  /\ Len(got[2]) = 5
  /\ response.status = 200
  /\ response.count = 5
  /\ Len(response.errors) = 1

Blank(name) == Trim(name) = <<>>

BlankReturned ==
  \E k \in AdapterIdx : \E j \in 1..Len(got[k]) : Blank(got[k][j].business_name)

ContactFields == { "email", "phone", "instagram_url" }

\* C9: each of email, phone and social handle that is non-null before
\* enrichment keeps its value, whatever the crawled pages contain; this holds
\* while the leads are being enriched and for the leads in the response.
C9_EnrichKeepsPopulated ==
  /\ \A i \in 1..Len(unique) : \A f \in ContactFields :
       before[i][f] # Null => unique[i][f] = before[i][f]
  /\ Answered /\ response.status = 200 =>
       \A j \in 1..Len(response.results) : \E i \in 1..Len(before) :
         /\ before[i].id = response.results[j].id
         /\ \A f \in ContactFields :
              before[i][f] # Null => response.results[j][f] = before[i][f]

C9_Witness ==
  /\ Answered
  /\ \E i \in 1..Len(unique) :
       /\ before[i].email = "owner@acme.com"
       /\ before[i].instagram_url = Null
       /\ unique[i].instagram_url = "https://instagram.com/acme_salon"
       /\ unique[i].email = "owner@acme.com"
       /\ unique[i].phone = before[i].phone
       /\ \E j \in 1..Len(response.results) : response.results[j] = unique[i]

\* the leads the claim says are crawled
HasGap(l) == l.website # Null /\ (l.email = Null \/ l.instagram_url = Null)

EnrichBatchCalled == pc \in {"enrich", "done"} /\ given # <<>>

\* C10: enrichLeadsBatch makes outbound fetches for a lead only if the lead
\* has a website and lacks email or social handle, every such lead has been
\* crawled when the batch run is over, and every other lead is returned
\* unchanged.
C10_CrawlIffGap ==
  EnrichBatchCalled =>
    \A i \in Range(given) :
      /\ fetches[i] > 0 => HasGap(before[i])
      /\ ~HasGap(before[i]) => unique[i] = before[i]
      /\ (Answered /\ HasGap(before[i])) => fetches[i] > 0

C10_Witness ==
  /\ Answered
  /\ EnrichBatchCalled
  /\ Len(unique) > Len(given)
  /\ \E i, j, k \in Range(given) :
       /\ HasGap(before[i]) /\ before[i].email = Null /\ fetches[i] = 5
       /\ unique[i].instagram_url # Null
       /\ before[j].website # Null /\ ~HasGap(before[j]) /\ fetches[j] = 0
       /\ before[j].phone = Null
       /\ before[k].website = Null /\ before[k].email = Null /\ fetches[k] = 0

\* ------------------------------------------------------------------------
\* Specification of enrichLeadsBatch(leads, maxConcurrent) called directly
\* ------------------------------------------------------------------------
MaxLimit == 3

\* leads with and without the gaps enrichment fills, in list order
EnrichPool ==
  << Lead(31, <<"a", "a">>, <<>>, <<"l">>, Null, Null,
          "https://www.acme.com/", Null, "yelp"),
     Lead(32, <<"b", "b">>, <<>>, <<"l">>, "01632 960001", "owner@acme.com",
          "https://acme.com", "https://instagram.com/acme_salon", "yelp"),
     Lead(33, <<"c", "c">>, <<>>, <<"l">>, "01632 960002", "owner@acme.com",
          "https://acme.com", Null, "yell"),
     Lead(34, <<"d", "d">>, <<>>, <<"l">>, Null, Null, Null, Null, "bark"),
     Lead(35, <<"e", "e">>, <<>>, <<"l">>, Null, Null,
          "https://www.beta.co.uk", "https://instagram.com/beta.hair", "fresha"),
     Lead(36, <<"f", "f">>, <<>>, <<"l">>, "01632 960003", "owner@gamma.com",
          "https://gamma.com", Null, "google_maps") >>

EnrichInputs == { SubSeq(EnrichPool, 1, n) : n \in 0..Len(EnrichPool) }

InitEnrich ==
  /\ niche = <<>>
  /\ location = <<>>
  /\ source = "undefined"
  /\ env \in { {}, {"FIRECRAWL_API_KEY"} }
  /\ pc = "call"
  /\ AdaptersIdle
  /\ StoreIdle
  /\ unique \in EnrichInputs
  /\ before = unique
  /\ given = Upto(1, Len(unique))
  /\ maxConcurrent \in 1..MaxLimit
  /\ needsEnrichment = <<>>
  /\ alreadyComplete = <<>>
  /\ batchStart = 0
  /\ task = << >>
  /\ enriched = <<>>
  /\ fetches = [i \in 1..Len(unique) |-> 0]
  /\ call = [op |-> "enrichLeadsBatch", ret |-> <<>>, returned |-> FALSE]

\* enrichLeadsBatch from its entry to the first Promise.all
EnrichCall ==
  /\ call.op = "enrichLeadsBatch"
  /\ pc = "call"
  /\ LET needs    == SelectSeq(given, LAMBDA i : NeedsEnrichment(unique[i]))
         complete == SelectSeq(given, LAMBDA i : IsComplete(unique[i]))
         batch    == Batch(needs, 0, maxConcurrent)
     IN  /\ needsEnrichment' = needs
         /\ alreadyComplete' = complete
         /\ IF Len(needs) = 0
            THEN /\ call' = [call EXCEPT !.ret = unique, !.returned = TRUE]
                 /\ pc' = "returned"
                 /\ UNCHANGED <<task, fetches>>
            ELSE /\ pc' = "enrich"
                 /\ task' = StartedBatch(unique, batch)
                 /\ fetches' = FetchesAfterStart(unique, batch)
                 /\ UNCHANGED call
  /\ UNCHANGED <<dvars, niche, location, source, env, st, stage, results, errors,
                 sourceStats, response, threw, upstream, got, unique, given,
                 maxConcurrent,
                 batchStart, enriched, before>>

NextEnrich ==
  \/ EnrichCall
  \/ \E i \in 1..Len(EnrichPool) : HomeResponds(i)
  \/ \E i \in 1..Len(EnrichPool) : ContactResponds(i)
  \/ BatchSettled

SpecEnrich == InitEnrich /\ [][NextEnrich]_vars

\* the leads whose enrichFromWebsite call has started and not yet returned
InProgress == { i \in DOMAIN task : task[i].phase # "done" }

\* C11: at every moment of enrichLeadsBatch(leads, maxConcurrent) the number
\* of leads whose crawl is in progress is at most maxConcurrent, however many
\* leads need enrichment.
C11_ConcurrencyCeiling == Cardinality(InProgress) <= maxConcurrent

C11_Witness ==
  /\ pc = "enrich"
  /\ maxConcurrent = 2
  /\ Len(needsEnrichment) = 4
  /\ Len(enriched) = 2
  /\ Cardinality(InProgress) = 2

\* C12 as stated: a lead one of whose fetches failed is returned unchanged.
C12_Original ==
  \A i \in DOMAIN task :
    (task[i].phase = "done" /\ task[i].failed) => unique[i] = before[i]

\* C12: a failed fetch adds nothing to its lead's text and the lead's other
\* pages still count: a lead none of whose fetches succeeded is returned
\* unchanged, every lead's result is what the extraction finds in the pages
\* fetched for that lead alone, a lead whose crawl has not finished is
\* untouched, and enrichLeadsBatch returns every lead it was given.
C12_CrawlFailureIsolated ==
  call.op = "enrichLeadsBatch" =>
    /\ \A i \in DOMAIN task :
         /\ (task[i].phase = "done" /\ ~task[i].fetched) => unique[i] = before[i]
         /\ task[i].phase = "done" => unique[i] = Extracted(before[i], task[i].text)
         /\ task[i].phase # "done" => unique[i] = before[i]
    /\ \A i \in Range(given) \ DOMAIN task : unique[i] = before[i]
    /\ pc = "returned" =>
         /\ call.returned
         /\ Len(call.ret) = Len(given)
         /\ \A i \in Range(given) : \E j \in 1..Len(call.ret) : call.ret[j] = unique[i]

C12_Witness ==
  /\ pc = "returned"
  /\ Len(before) >= 3
  /\ task[1].failed /\ ~task[1].fetched /\ fetches[1] = 5
  /\ unique[1] = before[1]
  /\ task[3].phase = "done" /\ ~task[3].failed
  /\ unique[3].instagram_url = "https://instagram.com/acme_salon"
  /\ batchStart = maxConcurrent

\* ------------------------------------------------------------------------
\* The search handler under fair scheduling: the continuations of the
\* handler run whenever they can; whether and when a provider or a crawled
\* site answers is up to the network, and no fetch carries a timeout or an
\* abort signal
\* ------------------------------------------------------------------------
HandlerStep ==
  \/ Validate
  \/ \E k \in AdapterIdx : StartAdapter(k)
  \/ FinishAdapters
  \/ BatchSettled

SpecLive == Init /\ [][Next]_vars /\ WF_vars(HandlerStep)

\* C13: every search request is eventually answered, also when a provider
\* or a website never responds.
C13_Original == <>Answered

\* ------------------------------------------------------------------------
\* calculateLeadScore (src/src/components/layout/LayoutWrapper.tsx) and the
\* helpers of src/src/lib/utils.ts. A LeadInput is a record; Null stands for
\* null and undefined alike, google_rating is in tenths (30 is 3.0)
\* ------------------------------------------------------------------------
\* null or undefined in a numeric field
Absent == 0 - 1

Factor(name, score, maxScore, text, n) ==
  [name |-> name, score |-> score, maxScore |-> maxScore,
   description |-> [text |-> text, n |-> n]]

emailScore(lead) == IF ~Falsy(lead.email) THEN 25 ELSE 0

phoneScore(lead) == IF ~Falsy(lead.phone) THEN 15 ELSE 0

websiteScoreMut(lead) ==
  IF lead.audit_score # Absent
  THEN IF lead.audit_score < 40 THEN 25
       ELSE IF lead.audit_score < 60 THEN 20
       ELSE IF lead.audit_score < 80 THEN 12
       ELSE 5
  ELSE IF ~Falsy(lead.website) THEN 18
  ELSE 12

websiteScore(lead) ==
  IF lead.audit_score # Absent
  THEN IF lead.audit_score < 40 THEN 25
       ELSE IF lead.audit_score < 60 THEN 20
       ELSE IF lead.audit_score < 80 THEN 12
       ELSE 5
  ELSE IF ~Falsy(lead.website) THEN 12
  ELSE 18

websiteText(lead) ==
  IF lead.audit_score # Absent
  THEN IF lead.audit_score < 50 THEN "Poor website" ELSE "Decent website"
  ELSE IF ~Falsy(lead.website) THEN "Has website but not yet audited"
  ELSE "No website"

reviewScore(lead) ==
  IF lead.google_review_count # Absent
  THEN IF lead.google_review_count < 10 THEN 15
       ELSE IF lead.google_review_count < 30 THEN 12
       ELSE IF lead.google_review_count < 100 THEN 8
       ELSE 4
  ELSE 0

\* lead.google_review_count ? `${count} reviews ...` : 'No review data'
reviewText(lead) ==
  IF lead.google_review_count # Absent /\ lead.google_review_count # 0
  THEN IF lead.google_review_count < 30 THEN "needs review generation"
       ELSE "established presence"
  ELSE "No review data"

reviewShown(lead) ==
  IF lead.google_review_count # Absent /\ lead.google_review_count # 0
  THEN lead.google_review_count ELSE 0

socialScoreMut(lead) ==
  (IF ~Falsy(lead.instagram_url) THEN 4 ELSE 0)
  + (IF ~Falsy(lead.website) THEN 4 ELSE 0)
  + (IF lead.google_rating # Absent /\ lead.google_rating # 0 /\ lead.google_rating >= 30
     THEN 3 ELSE 0)

socialScore(lead) ==
  (IF ~Falsy(lead.instagram_url) THEN 3 ELSE 0)
  + (IF ~Falsy(lead.website) THEN 4 ELSE 0)
  + (IF lead.google_rating # Absent /\ lead.google_rating # 0 /\ lead.google_rating >= 30
     THEN 3 ELSE 0)

completenessMut(lead) ==
  (IF ~Falsy(lead.business_name) THEN 2 ELSE 0)
  + (IF ~Falsy(lead.phone) THEN 2 ELSE 0)
  + (IF ~Falsy(lead.website) THEN 3 ELSE 0)

completeness(lead) ==
  (IF ~Falsy(lead.business_name) THEN 2 ELSE 0)
  + (IF ~Falsy(lead.email) THEN 3 ELSE 0)
  + (IF ~Falsy(lead.phone) THEN 2 ELSE 0)
  + (IF ~Falsy(lead.website) THEN 3 ELSE 0)

\* Math.round((score / 10) * 100)
Percent(score) == score * 10

factors(lead) ==
  << Factor("Email Available", emailScore(lead), 25,
            IF ~Falsy(lead.email) THEN "Contact email found" ELSE "No email", 0),
     Factor("Phone Available", phoneScore(lead), 15,
            IF ~Falsy(lead.phone) THEN "Phone number available" ELSE "No phone number", 0),
     Factor("Website Opportunity", websiteScore(lead), 25, websiteText(lead), 0),
     Factor("Review Opportunity", reviewScore(lead), 15, reviewText(lead),
            reviewShown(lead)),
     Factor("Online Presence", socialScore(lead), 10, "presence detected",
            Percent(socialScore(lead))),
     Factor("Data Completeness", completeness(lead), 10, "of contact data available",
            Percent(completeness(lead))) >>

totalOf(lead) ==
  emailScore(lead) + phoneScore(lead) + websiteScore(lead) + reviewScore(lead)
  + socialScore(lead) + completeness(lead)

gradeMut(total) ==
  IF total > 80 THEN "A"
  ELSE IF total > 65 THEN "B"
  ELSE IF total > 50 THEN "C"
  ELSE IF total > 35 THEN "D"
  ELSE "F"

grade(total) ==
  IF total >= 80 THEN "A"
  ELSE IF total >= 65 THEN "B"
  ELSE IF total >= 50 THEN "C"
  ELSE IF total >= 35 THEN "D"
  ELSE "F"

priority(total) ==
  IF total >= 70 THEN "hot"
  ELSE IF total >= 45 THEN "warm"
  ELSE "cold"

recommendation(total) ==
  IF total >= 80 THEN "High-priority lead"
  ELSE IF total >= 65 THEN "Strong lead"
  ELSE IF total >= 50 THEN "Decent prospect"
  ELSE IF total >= 35 THEN "Needs more data"
  ELSE "Low priority"

calculateLeadScore(lead) ==
  [total |-> totalOf(lead),
   grade |-> grade(totalOf(lead)),
   priority |-> priority(totalOf(lead)),
   factors |-> factors(lead),
   recommendation |-> recommendation(totalOf(lead))]

getGradeFromScore(score) ==
  IF score >= 80 THEN "A"
  ELSE IF score >= 65 THEN "B"
  ELSE IF score >= 50 THEN "C"
  ELSE IF score >= 35 THEN "D"
  ELSE "F"

getPriorityFromScore(score) ==
  IF score >= 70 THEN "hot"
  ELSE IF score >= 45 THEN "warm"
  ELSE "cold"

\* ------------------------------------------------------------------------
\* Specification of the scorer: a lead is scored, then scored once more at a
\* later time, or scored again with an email or a phone added
\* ------------------------------------------------------------------------
LeadInputs ==
  [email : { Null, "", "owner@acme.com" },
   phone : { Null, "01632 960001" },
   website : { Null, "https://acme.com" },
   instagram_url : { Null, "https://instagram.com/acme_salon" },
   google_rating : { Absent, 0, 29, 30 },
   google_review_count : { Absent, 0, 9, 10, 29, 30, 99, 100 },
   audit_score : { Absent, 0, 39, 40, 59, 60, 79, 80 },
   business_name : { Null, "Acme Salon" }]

NoScore == [total |-> 0 - 1]

InitScore ==
  /\ PipelineIdle
  /\ \E lead \in LeadInputs :
       call = [op |-> "calculateLeadScore", state |-> "ready", lead |-> lead,
               now |-> 0, ret |-> NoScore, lead2 |-> lead, ret2 |-> NoScore]

ScoreLead ==
  /\ call.op = "calculateLeadScore"
  /\ call.state = "ready"
  /\ call' = [call EXCEPT !.state = "scored", !.now = 1,
                          !.ret = calculateLeadScore(call.lead)]
  /\ UNCHANGED svars

\* a second call on a lead with the same attributes, later
ScoreAgain ==
  /\ call.op = "calculateLeadScore"
  /\ call.state = "scored"
  /\ call' = [call EXCEPT !.state = "again", !.now = 2,
                          !.ret2 = calculateLeadScore(call.lead2)]
  /\ UNCHANGED svars

ScoreWithEmail ==
  /\ call.op = "calculateLeadScore"
  /\ call.state = "scored"
  /\ Falsy(call.lead.email)
  /\ LET with == [call.lead EXCEPT !.email = "info@acme.com"]
     IN  call' = [call EXCEPT !.state = "email", !.now = 2, !.lead2 = with,
                              !.ret2 = calculateLeadScore(with)]
  /\ UNCHANGED svars

ScoreWithPhone ==
  /\ call.op = "calculateLeadScore"
  /\ call.state = "scored"
  /\ Falsy(call.lead.phone)
  /\ LET with == [call.lead EXCEPT !.phone = "01632 960002"]
     IN  call' = [call EXCEPT !.state = "phone", !.now = 2, !.lead2 = with,
                              !.ret2 = calculateLeadScore(with)]
  /\ UNCHANGED svars

NextScore == ScoreLead \/ ScoreAgain \/ ScoreWithEmail \/ ScoreWithPhone

SpecScore == InitScore /\ [][NextScore]_vars

Scored == call.op = "calculateLeadScore" /\ call.state # "ready"

ScoredTwice ==
  call.op = "calculateLeadScore" /\ call.state \in { "again", "email", "phone" }

\* C15 as stated: adding an email raises the total by exactly 25, adding a
\* phone by exactly 15.
C15_Original ==
  /\ (ScoredTwice /\ call.state = "email") => call.ret2.total = call.ret.total + 25
  /\ (ScoredTwice /\ call.state = "phone") => call.ret2.total = call.ret.total + 15

\* C15: for every lead without an email, adding an email and changing
\* nothing else raises the total by exactly 28 (25 for the email factor and
\* 3 for data completeness); for every lead without a phone, adding a phone
\* raises it by exactly 17 (15 and 2).
C15_ScoreDeltas ==
  /\ (ScoredTwice /\ call.state = "email") =>
       /\ call.ret2.total = call.ret.total + 28
       /\ call.ret2.factors[1].score = call.ret.factors[1].score + 25
       /\ call.ret2.factors[6].score = call.ret.factors[6].score + 3
  /\ (ScoredTwice /\ call.state = "phone") =>
       /\ call.ret2.total = call.ret.total + 17
       /\ call.ret2.factors[2].score = call.ret.factors[2].score + 15
       /\ call.ret2.factors[6].score = call.ret.factors[6].score + 2

C15_Witness ==
  /\ ScoredTwice
  /\ call.state = "email"
  /\ call.lead.email = Null
  /\ call.lead2.email = "info@acme.com"
  /\ call.ret.total = 52
  /\ call.ret2.total = 80

\* the thresholds as documented
DocumentedGrade(t) ==
  CASE t >= 80 -> "A"
    [] t >= 65 /\ t < 80 -> "B"
    [] t >= 50 /\ t < 65 -> "C"
    [] t >= 35 /\ t < 50 -> "D"
    [] t < 35 -> "F"

DocumentedPriority(t) ==
  CASE t >= 70 -> "hot"
    [] t >= 45 /\ t < 70 -> "warm"
    [] t < 45 -> "cold"

\* C16: for every total in 0..100 the grade and the priority computed by
\* calculateLeadScore, and by getGradeFromScore and getPriorityFromScore,
\* are the documented ones, and every score result carries the grade and
\* priority of its total.
C16_GradeAndPriority ==
  /\ \A t \in 0..100 :
       /\ grade(t) = DocumentedGrade(t)
       /\ getGradeFromScore(t) = DocumentedGrade(t)
       /\ priority(t) = DocumentedPriority(t)
       /\ getPriorityFromScore(t) = DocumentedPriority(t)
  /\ Scored =>
       /\ call.ret.total \in 0..100
       /\ call.ret.grade = DocumentedGrade(call.ret.total)
       /\ call.ret.grade = getGradeFromScore(call.ret.total)
       /\ call.ret.priority = DocumentedPriority(call.ret.total)
       /\ call.ret.priority = getPriorityFromScore(call.ret.total)

C16_Witness ==
  /\ Scored
  /\ call.state = "scored"
  /\ call.ret.total = 65
  /\ call.ret.grade = "B"
  /\ call.ret.priority = "warm"

FactorNames ==
  << "Email Available", "Phone Available", "Website Opportunity",
     "Review Opportunity", "Online Presence", "Data Completeness" >>

FactorMaxima == << 25, 15, 25, 15, 10, 10 >>

RECURSIVE SumScores(_, _)
SumScores(fs, i) == IF i > Len(fs) THEN 0 ELSE fs[i].score + SumScores(fs, i + 1)

\* C17: the total lies in 0..100 and is the sum of the earned points of the
\* six factors, which come in the order email, phone, website opportunity,
\* review opportunity, online presence, data completeness, each with earned
\* points between 0 and its maximum.
C17_TotalIsSumOfFactors ==
  Scored =>
    /\ call.ret.total \in 0..100
    /\ Len(call.ret.factors) = 6
    /\ call.ret.total = SumScores(call.ret.factors, 1)
    /\ \A i \in 1..6 :
         /\ call.ret.factors[i].name = FactorNames[i]
         /\ call.ret.factors[i].maxScore = FactorMaxima[i]
         /\ call.ret.factors[i].score >= 0
         /\ call.ret.factors[i].score <= FactorMaxima[i]

C17_Witness ==
  /\ Scored
  /\ call.state = "scored"
  /\ call.ret.total = 100
  /\ \A i \in 1..6 : call.ret.factors[i].score = FactorMaxima[i]

\* C18: the website-opportunity factor is 25, 20, 12 or 5 for an audit score
\* below 40, below 60, below 80 or from 80 up, with or without a website,
\* and without an audit score it is 12 with a website and 18 without one.
C18_WebsiteOpportunity ==
  Scored =>
    LET lead == call.lead
        f    == call.ret.factors[3]
    IN  /\ f.name = "Website Opportunity"
        /\ (lead.audit_score # Absent /\ lead.audit_score < 40) => f.score = 25
        /\ (lead.audit_score # Absent /\ lead.audit_score >= 40
            /\ lead.audit_score < 60) => f.score = 20
        /\ (lead.audit_score # Absent /\ lead.audit_score >= 60
            /\ lead.audit_score < 80) => f.score = 12
        /\ (lead.audit_score # Absent /\ lead.audit_score >= 80) => f.score = 5
        /\ (lead.audit_score = Absent /\ lead.website # Null) => f.score = 12
        /\ (lead.audit_score = Absent /\ lead.website = Null) => f.score = 18

C18_Witness ==
  /\ Scored
  /\ call.state = "scored"
  /\ call.lead.audit_score = Absent
  /\ call.lead.website = Null
  /\ call.ret.factors[3].score = 18

\* neither the primary strategy of adapter a nor its fallback, if it has one,
\* has the credential it needs
Unconfigured(a) ==
  /\ ~getKey(PrimaryKey(a))
  /\ HasFallback(a) => ~getKey("FIRECRAWL_API_KEY")

\* C19: an adapter that can run neither its primary strategy nor a fallback
\* for lack of credentials raises an error, so that a single-source search
\* on it is answered with an error and not with an empty success.
C19_Original ==
  \A k \in AdapterIdx :
    (Selected(k) /\ st[k] = "settled" /\ Unconfigured(Adapters[k])) =>
      /\ k \in threw
      /\ (Answered /\ source = Adapters[k]) => response.status = 500

\* C20: an adapter whose provider answered non-2xx or with a malformed
\* payload raises an error: in single-source mode the search is answered
\* with an error, in all-sources mode the error is recorded and the adapter
\* contributes no results.
C20_Original ==
  \A k \in upstream :
    st[k] = "settled" =>
      /\ k \in threw
      /\ got[k] = <<>>
      /\ (Answered /\ source = Adapters[k]) => response.status = 500

\* C21: a search request whose source selector names no adapter and is not
\* 'all' is answered with an error, never with a successful result.
C21_Original ==
  (Answered /\ source \notin Range(Adapters) \cup {"all"}) => response.status # 200

InvokedAdapters == { k \in AdapterIdx : Selected(k) }

RECURSIVE SumStats(_, _)
SumStats(stats, names) ==
  IF names = {} THEN 0
  ELSE LET a == CHOOSE x \in names : TRUE
       IN  stats[a] + SumStats(stats, names \ {a})

\* C30: in a successful search response sourceStats has exactly one entry per
\* invoked adapter, the entry is the number of candidates the adapter
\* returned (0 when it failed or returned nothing), and the number of results
\* is at most the sum of the entries.
C30_SourceStatsConsistent ==
  (Answered /\ response.status = 200) =>
    /\ DOMAIN response.sourceStats = { Adapters[k] : k \in InvokedAdapters }
    /\ \A k \in InvokedAdapters :
         response.sourceStats[Adapters[k]] = IF k \in threw THEN 0 ELSE Len(got[k])
    /\ response.count = Len(response.results)
    /\ response.count <= SumStats(response.sourceStats, DOMAIN response.sourceStats)

C30_Witness ==
  /\ Answered
  /\ response.status = 200
  /\ source = "all"
  /\ 1 \in threw
  /\ response.sourceStats["google_maps"] = 0
  /\ response.sourceStats["yelp"] = 5
  /\ response.sourceStats["fresha"] = 0
  /\ response.sourceStats["yell"] = 1
  /\ response.count = 6

\* C27: the leads of a successful search response are the de-duplicated
\* candidates, each exactly once, whether or not enrichLeadsBatch ran on them:
\* enrichLeadsBatch returns every lead it is given exactly once.
C27_OneEntryPerLead ==
  (Answered /\ response.status = 200) =>
    /\ response.count = Len(unique)
    /\ Len(response.results) = Len(unique)
    /\ \A i \in 1..Len(unique) :
         Cardinality({ j \in 1..Len(response.results) :
                         response.results[j].id = unique[i].id }) = 1

C27_Witness ==
  /\ Answered
  /\ response.status = 200
  /\ Len(given) = EnrichLimit
  /\ Len(unique) > Len(given)
  /\ Len(needsEnrichment) >= 1
  /\ Len(alreadyComplete) >= 1
  /\ Len(enriched) = Len(needsEnrichment)
  /\ response.count = Len(unique)

\* ------------------------------------------------------------------------
\* enrichLeadsBatch called directly, every fetch settling: a fetch whose
\* answer is pending gets it, and the continuation of a settled Promise.all
\* runs
\* ------------------------------------------------------------------------
\* the calls on the leads of the pool up to the fifth
InitEnrichLive == InitEnrich /\ Len(unique) < Len(EnrichPool)

SpecEnrichLive == InitEnrichLive /\ [][NextEnrich]_vars /\ WF_vars(NextEnrich)

CeilDiv(n, d) == (n + d - 1) \div d

\* the batch the loop of enrichLeadsBatch is at
CurrentBatch == Range(Batch(needsEnrichment, batchStart, maxConcurrent))

BatchesInOrder ==
  pc \in {"enrich", "returned"} =>
    /\ batchStart % maxConcurrent = 0
    /\ enriched = Slice(needsEnrichment, 0, batchStart)
    /\ pc = "enrich" =>
         /\ batchStart < Len(needsEnrichment)
         /\ DOMAIN task = Range(Slice(needsEnrichment, 0, batchStart + maxConcurrent))
         /\ InProgress \subseteq CurrentBatch
    /\ \A i \in DOMAIN task :
         /\ fetches[i] <= 1 + Len(contactPaths)
         /\ (getKey("FIRECRAWL_API_KEY") /\ task[i].phase = "done") => fetches[i] >= 1
    /\ \A i \in DOMAIN fetches \ DOMAIN task : fetches[i] = 0
    /\ (pc = "returned" /\ Len(needsEnrichment) > 0) =>
         /\ DOMAIN task = Range(needsEnrichment)
         /\ batchStart = CeilDiv(Len(needsEnrichment), maxConcurrent) * maxConcurrent

\* C25: enrichLeadsBatch takes the leads needing enrichment in consecutive
\* batches of maxConcurrent, crawls each of them once, starts no crawl of a
\* batch before every crawl of the batch before it has settled, and, when
\* every fetch settles, returns after ceil(n / maxConcurrent) batches.
C25_SequentialBatches == []BatchesInOrder /\ <>(pc = "returned")

C25_Witness ==
  /\ pc = "returned"
  /\ call.op = "enrichLeadsBatch"
  /\ maxConcurrent = 2
  /\ Len(needsEnrichment) = 3
  /\ batchStart = 4
  /\ fetches[1] = 5
  /\ fetches[3] = 1
  /\ fetches[5] >= 1

\* C26 as stated: while a crawl of the running batch is in flight, no lead of
\* that batch has been modified.
C26_Original ==
  InProgress # {} => \A i \in CurrentBatch : unique[i] = before[i]

\* C26: a lead is written by one task only, the task crawling that lead, and
\* the write happens when this task's own crawl finishes, possibly while
\* other crawls of the batch are still in flight; a lead whose crawl is in
\* flight or has not started is unmodified.
C26_OwnTaskWrites ==
  [][ /\ Len(unique') = Len(unique)
      /\ \A i \in 1..Len(unique) :
           unique'[i] # unique[i] =>
             /\ i \in DOMAIN task
             /\ task[i].phase # "done"
             /\ task'[i].phase = "done"
             /\ \A j \in InProgress \ {i} : task'[j] = task[j]
      /\ \A i \in 1..Len(unique') :
           (i \notin DOMAIN task' \/ task'[i].phase # "done") => unique'[i] = before'[i]
    ]_vars

C26_Witness ==
  /\ pc = "enrich"
  /\ maxConcurrent = 3
  /\ {1, 3, 5} \subseteq DOMAIN task
  /\ task[3].phase = "done"
  /\ unique[3] # before[3]
  /\ task[1].phase = "contact"
  /\ task[5].phase = "home"

\* ------------------------------------------------------------------------
\* The table public.leads and the requests that write it: handleSaveAll of
\* the pipeline page, POST /api/enrich, POST /api/score, POST /api/audit and
\* POST /api/import. A request runs up to its next await of the store in one
\* step, so the steps of two requests interleave; awaits of a crawl or of
\* PageSpeed, which touch nothing shared, are folded into the step of the
\* write that follows them.
\* ------------------------------------------------------------------------
Row(name, src, email, phone, website, ig, rating, count) ==
  [business_name |-> name, source |-> src, email |-> email, phone |-> phone,
   website |-> website, instagram_url |-> ig, google_rating |-> rating,
   google_review_count |-> count, audit_score |-> Absent,
   lead_score |-> Absent, lead_grade |-> Null, lead_priority |-> Null]

NoRow == Row(Null, Null, Null, Null, Null, Null, Absent, Absent)

\* check (source in ('google_maps', 'yelp', 'fresha'))
SourceCheck == { "google_maps", "yelp", "fresha" }

\* check (lead_priority in ('hot', 'warm', 'cold'))
PriorityCheck == { "hot", "warm", "cold" }

\* insert into public.leads: the row is added unless it breaks not null or
\* a check; the table has no unique constraint but the primary key id
Insert(rows, row) ==
  IF /\ row.business_name # Null
     /\ row.source \in SourceCheck
     /\ row.lead_priority \in PriorityCheck \cup { Null }
  THEN Append(rows, row)
  ELSE rows

\* update(updates).eq('id', id)
Update(rows, id, updates) ==
  IF "lead_priority" \in DOMAIN updates /\ updates["lead_priority"] \notin PriorityCheck
  THEN rows
  ELSE [rows EXCEPT ![id] =
          [f \in DOMAIN rows[id] |-> IF f \in DOMAIN updates THEN updates[f]
                                     ELSE rows[id][f]]]

\* maybeSingle(): the row when exactly one matches, null data otherwise
maybeSingle(ids) ==
  IF Cardinality(ids) = 1 THEN CHOOSE i \in ids : TRUE ELSE 0

Clients == 1..2

\* the requests of one run, over all clients
MaxRequests == 3

RECURSIVE Started(_)
Started(clients) ==
  IF clients = {} THEN 0
  ELSE LET c == CHOOSE x \in clients : TRUE
       IN  req[c].n + Started(clients \ {c})

NoUpdates == << >>

IdleRequest ==
  [op |-> "none", pc |-> "idle", n |-> 0, items |-> <<>>, id |-> 0,
   snap |-> NoRow, text |-> NoText, updates |-> NoUpdates]

Free(c) == req[c].pc \in { "idle", "done" } /\ Started(Clients) < MaxRequests

Begin(c, op, at, items, id, snap) ==
  [op |-> op, pc |-> at, n |-> req[c].n + 1, items |-> items, id |-> id,
   snap |-> snap, text |-> NoText, updates |-> NoUpdates]

TextFields == { "phone", "email", "website", "instagram_url" }

NumberFields == { "google_rating", "google_review_count" }

\* ---- handleSaveAll ----
\* search results the user saves: one source each
SaveSets ==
  { << Row("Acme Salon", "yelp", Null, "01632 960001", "https://acme.com",
           Null, 38, 15) >>,
    << Row("Acme Salon", "yelp", "owner@acme.com", Null, "https://acme.com",
           Null, 38, 15),
       Row("Delta Spa", "google_maps", Null, Null, "http://delta.com",
           Null, 42, 40) >>,
    << Row("Gamma Nails", "yell", Null, "01632 960003", Null, Null,
           Absent, Absent) >> }

\* the object of the update: value || undefined leaves a key out
SaveUpdates(result) ==
  [f \in { g \in TextFields : ~Falsy(result[g]) }
         \cup { g \in NumberFields : result[g] > 0 } |-> result[f]]

SaveBegin(c) ==
  /\ Free(c)
  /\ \E toSave \in SaveSets :
       req' = [req EXCEPT ![c] = Begin(c, "save", "select", toSave, 0, NoRow)]
  /\ UNCHANGED <<leadsTable, call, avars, evars>>

\* select('id').eq('business_name', ..).eq('source', ..).maybeSingle()
SaveSelect(c) ==
  /\ req[c].op = "save"
  /\ req[c].pc = "select"
  /\ LET result == Head(req[c].items)
         ids    == { i \in 1..Len(leadsTable) :
                       /\ leadsTable[i].business_name = result.business_name
                       /\ leadsTable[i].source = result.source }
     IN  req' = [req EXCEPT ![c].id = maybeSingle(ids), ![c].pc = "write"]
  /\ UNCHANGED <<leadsTable, call, avars, evars>>

\* if (existing) update ... else insert ..., then the next result
SaveWrite(c) ==
  /\ req[c].op = "save"
  /\ req[c].pc = "write"
  /\ LET result == Head(req[c].items)
     IN  /\ leadsTable' = IF req[c].id # 0
                          THEN Update(leadsTable, req[c].id, SaveUpdates(result))
                          ELSE Insert(leadsTable, result)
         /\ req' = [req EXCEPT ![c].items = Tail(req[c].items),
                               ![c].pc = IF Len(req[c].items) = 1 THEN "done"
                                         ELSE "select"]
  /\ UNCHANGED <<call, avars, evars>>

\* ---- POST /api/enrich ----
\* the filter of extractEmails
RejectedByEnrich(addr) ==
  DomainOf(addr) \in { "2x.png", "example.com", "sentry.io", "wixpress.com",
                       "schema.org" }

\* Array.from(new Set(list))
RECURSIVE FromSet(_)
FromSet(list) ==
  IF Len(list) = 0 THEN <<>>
  ELSE LET front == FromSet(SubSeq(list, 1, Len(list) - 1))
           last  == list[Len(list)]
       IN  IF \E i \in 1..Len(front) : front[i] = last THEN front
           ELSE Append(front, last)

extractEmails(text) ==
  LET found    == SelectSeq(text.tokens, LAMBDA t : t.kind = "email")
      filtered == SelectSeq(found, LAMBDA t : ~RejectedByEnrich(t.addr))
  IN  FromSet([i \in 1..Len(filtered) |-> filtered[i].addr])

EnrichReserved == { "p", "reel", "stories", "explore", "accounts" }

\* igRegex.exec(text): the first match alone
extractInstagram(text) ==
  LET found == SelectSeq(text.tokens, LAMBDA t : t.kind = "ig")
  IN  IF Len(found) > 0 /\ found[1].handle \notin EnrichReserved
      THEN InstagramUrl(found[1].handle)
      ELSE Null

\* p.replace(/[^0-9+]/g, '')
Cleaned(phone) ==
  CASE phone = "020 7946 0999" -> "02079460999"
    [] phone = "+44 20 7946 0000" -> "+442079460000"
    [] OTHER -> "12345"

CleanedLen(t) == t.digits + (IF t.text = "+44 20 7946 0000" THEN 1 ELSE 0)

extractPhones(text) ==
  LET found   == SelectSeq(text.tokens, LAMBDA t : t.kind = "phone")
      cleaned == SelectSeq(found, LAMBDA t : CleanedLen(t) >= MinDigits
                                             /\ CleanedLen(t) <= MaxDigits)
  IN  IF Len(cleaned) > 0 THEN Cleaned(cleaned[1].text) ELSE Null

\* crawlWithFirecrawl: null without a key, on a non-2xx answer and on an
\* exception, the page's markdown otherwise
CrawlResults ==
  { [ok |-> FALSE, markdown |-> NoText] }
  \cup { [ok |-> TRUE, markdown |-> md] :
           md \in HomePages
                  \cup { Page(200, << IgTok("about"), EmailTok("noreply@acme.com"),
                                      EmailTok("hello@acme.com"),
                                      PhoneTok("+44 20 7946 0000", 12) >>) } }

\* const updates, computed from the lead as it was selected
EnrichUpdates(lead, text) ==
  LET emails == extractEmails(text)
      phone  == extractPhones(text)
      ig     == extractInstagram(text)
      keys   == { f \in { "email" } : Falsy(lead.email) /\ Len(emails) > 0 }
                \cup { f \in { "phone" } : Falsy(lead.phone) /\ phone # Null }
                \cup { f \in { "instagram_url" } :
                         Falsy(lead.instagram_url) /\ ig # Null }
  IN  [f \in keys |-> CASE f = "email" -> emails[1]
                        [] f = "phone" -> phone
                        [] OTHER -> ig]

\* select('*').eq('id', leadId).single() and the two early continues
EnrichSelect(c) ==
  /\ Free(c)
  /\ \E id \in 1..Len(leadsTable) :
       LET lead == leadsTable[id]
           skip == \/ Falsy(lead.website)
                   \/ (~Falsy(lead.email) /\ ~Falsy(lead.phone)
                       /\ ~Falsy(lead.instagram_url))
       IN  req' = [req EXCEPT ![c] =
                     Begin(c, "enrich", IF skip THEN "done" ELSE "crawl", <<>>, id, lead)]
  /\ UNCHANGED <<leadsTable, call, avars, evars>>

\* the crawl comes back; update(updates).eq('id', leadId)
EnrichWrite(c) ==
  /\ req[c].op = "enrich"
  /\ req[c].pc = "crawl"
  /\ \E crawlResult \in CrawlResults :
       LET updates == IF crawlResult.ok
                      THEN EnrichUpdates(req[c].snap, crawlResult.markdown)
                      ELSE NoUpdates
       IN  /\ leadsTable' = IF DOMAIN updates # {}
                            THEN Update(leadsTable, req[c].id, updates)
                            ELSE leadsTable
           /\ req' = [req EXCEPT ![c].pc = "done",
                                 ![c].text = crawlResult.markdown,
                                 ![c].updates = updates]
  /\ UNCHANGED <<call, avars, evars>>

\* ---- POST /api/score ----
ScoreSelect(c) ==
  /\ Free(c)
  /\ \E id \in 1..Len(leadsTable) :
       req' = [req EXCEPT ![c] = Begin(c, "score", "write", <<>>, id, leadsTable[id])]
  /\ UNCHANGED <<leadsTable, call, avars, evars>>

ScoreUpdates(scoreResult) ==
  [lead_score |-> scoreResult.total, lead_grade |-> scoreResult.grade,
   lead_priority |-> scoreResult.priority]

ScoreWrite(c) ==
  /\ req[c].op = "score"
  /\ req[c].pc = "write"
  /\ LET updates == ScoreUpdates(calculateLeadScore(req[c].snap))
     IN  /\ leadsTable' = Update(leadsTable, req[c].id, updates)
         /\ req' = [req EXCEPT ![c].pc = "done", ![c].updates = updates]
  /\ UNCHANGED <<call, avars, evars>>

\* ---- POST /api/audit ----
CheckNames ==
  { "has_social_media", "has_click_to_call", "has_video", "has_chatbot",
    "has_booking", "has_meta_description", "has_h1", "has_analytics",
    "has_schema" }

deductions ==
  [has_social_media |-> 8, has_click_to_call |-> 8, has_video |-> 5,
   has_chatbot |-> 5, has_booking |-> 10, has_meta_description |-> 8,
   has_h1 |-> 5, has_analytics |-> 10, has_schema |-> 6]

\* the points of the lead score for a check that failed
opportunity ==
  [has_social_media |-> 3, has_click_to_call |-> 3, has_video |-> 2,
   has_chatbot |-> 3, has_booking |-> 3, has_meta_description |-> 2,
   has_h1 |-> 2, has_analytics |-> 2, has_schema |-> 1]

RECURSIVE Total(_, _)
Total(f, names) ==
  IF names = {} THEN 0
  ELSE LET a == CHOOSE x \in names : TRUE
       IN  f[a] + Total(f, names \ {a})

\* websiteUrl.startsWith('https')
StartsWithHttps(website) == website # "http://delta.com"

\* crawlWebsite and analyzeHTML: no html, or the checks the html passes
HtmlOutcomes ==
  { [html |-> FALSE, passed |-> {}],
    [html |-> TRUE, passed |-> {}],
    [html |-> TRUE, passed |-> { "has_social_media", "has_booking", "has_h1" }],
    [html |-> TRUE, passed |-> CheckNames] }

\* getPageSpeedScores: mobile and speed, 0 and 0 on an error
PageSpeeds == { <<0, 0>>, <<45, 60>>, <<90, 90>> }

\* { ssl_check, mobile_score, speed_score, ...htmlChecks }: analyzeHTML sets
\* ssl_check to true
AuditData(lead, outcome, speeds) ==
  [ssl_check |-> IF outcome.html THEN TRUE ELSE StartsWithHttps(lead.website),
   mobile_score |-> speeds[1],
   speed_score |-> speeds[2],
   failed |-> CheckNames \ outcome.passed]

SpeedDeduction(score) == IF score < 50 THEN 10 ELSE IF score < 70 THEN 5 ELSE 0

calculateAuditScore(checks) ==
  LET score == 100 - (IF checks.ssl_check THEN 0 ELSE 15)
                   - Total(deductions, checks.failed)
                   - SpeedDeduction(checks.mobile_score)
                   - SpeedDeduction(checks.speed_score)
  IN  IF score < 0 THEN 0 ELSE IF score > 100 THEN 100 ELSE score

\* let leadScore of the audit route
auditLeadScore(lead, auditData) ==
  LET contact == (IF ~Falsy(lead.phone) THEN 5 ELSE 0)
                 + (IF ~Falsy(lead.email) THEN 10 ELSE 0)
                 + (IF ~Falsy(lead.website) THEN 5 ELSE 0)
      issues  == (IF auditData.ssl_check THEN 0 ELSE 3)
                 + (IF auditData.mobile_score < 50 THEN 3 ELSE 0)
                 + (IF auditData.speed_score < 50 THEN 3 ELSE 0)
                 + Total(opportunity, auditData.failed)
      rating  == IF lead.google_rating > 0 /\ lead.google_rating < 40 THEN 10
                 ELSE IF lead.google_rating > 0 /\ lead.google_rating < 45 THEN 5
                 ELSE 0
      reviews == IF lead.google_review_count > 0 /\ lead.google_review_count < 20 THEN 10
                 ELSE IF lead.google_review_count > 0 /\ lead.google_review_count < 50 THEN 5
                 ELSE 0
      sum     == contact + issues + rating + reviews
  IN  IF sum > 100 THEN 100 ELSE sum

auditGrade(leadScore) ==
  IF leadScore >= 90 THEN "A+"
  ELSE IF leadScore >= 80 THEN "A"
  ELSE IF leadScore >= 70 THEN "B"
  ELSE IF leadScore >= 60 THEN "C"
  ELSE IF leadScore >= 50 THEN "D"
  ELSE "F"

auditPriority(leadScore) ==
  IF leadScore >= 70 THEN "hot"
  ELSE IF leadScore >= 40 THEN "warm"
  ELSE "cold"

AuditUpdates(lead, auditData) ==
  [audit_score |-> calculateAuditScore(auditData),
   lead_score |-> auditLeadScore(lead, auditData),
   lead_grade |-> auditGrade(auditLeadScore(lead, auditData)),
   lead_priority |-> auditPriority(auditLeadScore(lead, auditData))]

\* select('*').eq('id', leadId).single(); 400 for a lead without a website
AuditSelect(c) ==
  /\ Free(c)
  /\ \E id \in 1..Len(leadsTable) :
       LET lead == leadsTable[id]
       IN  req' = [req EXCEPT ![c] =
                     Begin(c, "audit", IF Falsy(lead.website) THEN "done" ELSE "crawl",
                           <<>>, id, lead)]
  /\ UNCHANGED <<leadsTable, call, avars, evars>>

\* the crawl and PageSpeed come back; the update of the lead
AuditWrite(c) ==
  /\ req[c].op = "audit"
  /\ req[c].pc = "crawl"
  /\ \E outcome \in HtmlOutcomes, speeds \in PageSpeeds :
       LET updates == AuditUpdates(req[c].snap, AuditData(req[c].snap, outcome, speeds))
       IN  /\ leadsTable' = Update(leadsTable, req[c].id, updates)
           /\ req' = [req EXCEPT ![c].pc = "done", ![c].updates = updates]
  /\ UNCHANGED <<call, avars, evars>>

\* ---- POST /api/import ----
\* the rows of an uploaded file after mapFields
CsvFiles ==
  { << Row("Acme Salon", Null, "info@acme.com", Null, "https://acme.com",
           Null, 47, 120) >>,
    << Row(Null, Null, "owner@gamma.com", Null, Null, Null, Absent, Absent),
       Row("Gamma Nails", Null, Null, "01632 960003", Null, Null, 38, 8) >> }

ImportBegin(c) ==
  /\ Free(c)
  /\ \E rows \in CsvFiles :
       req' = [req EXCEPT ![c] = Begin(c, "import", "select", rows, 0, NoRow)]
  /\ UNCHANGED <<leadsTable, call, avars, evars>>

NextRow(c) ==
  [req EXCEPT ![c].items = Tail(req[c].items),
              ![c].pc = IF Len(req[c].items) = 1 THEN "done" ELSE "select"]

\* a row without a name is an error; select('id').eq('business_name', ..)
\* .maybeSingle(), and an existing lead makes the row a duplicate
ImportSelect(c) ==
  /\ req[c].op = "import"
  /\ req[c].pc = "select"
  /\ LET mapped == Head(req[c].items)
         ids    == { i \in 1..Len(leadsTable) :
                       leadsTable[i].business_name = mapped.business_name }
     IN  req' = IF mapped.business_name = Null \/ maybeSingle(ids) # 0
                THEN NextRow(c)
                ELSE [req EXCEPT ![c].pc = "write"]
  /\ UNCHANGED <<leadsTable, call, avars, evars>>

ImportedRow(mapped) ==
  LET scoreResult == calculateLeadScore(mapped)
  IN  [mapped EXCEPT !.source = "csv_import",
                     !.lead_score = scoreResult.total,
                     !.lead_grade = scoreResult.grade,
                     !.lead_priority = scoreResult.priority]

\* insert({..., source: 'csv_import', lead_score, lead_grade, lead_priority})
ImportWrite(c) ==
  /\ req[c].op = "import"
  /\ req[c].pc = "write"
  /\ leadsTable' = Insert(leadsTable, ImportedRow(Head(req[c].items)))
  /\ req' = NextRow(c)
  /\ UNCHANGED <<call, avars, evars>>

\* a table holding a lead saved from an earlier search
InitialTables ==
  { <<>>,
    << Row("Acme Salon", "yelp", Null, Null, "https://acme.com", Null, 38, 15) >> }

InitStore ==
  /\ call = [op |-> "store"]
  /\ niche = <<>>
  /\ location = <<>>
  /\ source = "undefined"
  /\ env = {}
  /\ pc = "done"
  /\ AdaptersIdle
  /\ EnrichIdle
  /\ leadsTable \in InitialTables
  /\ req = [c \in Clients |-> IdleRequest]

NextStore ==
  \/ \E c \in Clients : SaveBegin(c)
  \/ \E c \in Clients : SaveSelect(c)
  \/ \E c \in Clients : SaveWrite(c)
  \/ \E c \in Clients : EnrichSelect(c)
  \/ \E c \in Clients : EnrichWrite(c)
  \/ \E c \in Clients : ScoreSelect(c)
  \/ \E c \in Clients : ScoreWrite(c)
  \/ \E c \in Clients : AuditSelect(c)
  \/ \E c \in Clients : AuditWrite(c)
  \/ \E c \in Clients : ImportBegin(c)
  \/ \E c \in Clients : ImportSelect(c)
  \/ \E c \in Clients : ImportWrite(c)

SpecStore == InitStore /\ [][NextStore]_vars

\* C22: the table never holds two leads with the same business_name and
\* source, whatever saves, imports and other requests have run, interleaved
\* or not.
C22_Original ==
  \A i, j \in 1..Len(leadsTable) :
    (/\ leadsTable[i].business_name = leadsTable[j].business_name
     /\ leadsTable[i].source = leadsTable[j].source) => i = j

\* the enrich requests that have finished
EnrichDone == { c \in Clients : req[c].op = "enrich" /\ req[c].pc = "done" }

\* the documented order: own domain first, then the prefixes in their order
DocumentedRank(addr, website) ==
  (IF DomainOf(addr) = DomainClean(website) THEN 0 ELSE 100) + PrefIdx(addr)

\* C23: the email an enrichment stores is, among the addresses of the page
\* left after noise rejection, the first one in page order that no other one
\* precedes in the documented order.
C23_Original ==
  \A c \in EnrichDone :
    "email" \in DOMAIN req[c].updates =>
      LET found     == SelectSeq(req[c].text.tokens, LAMBDA t : t.kind = "email")
          remaining == SelectSeq(found, LAMBDA t : ~RejectedEmail(t.addr))
          website   == req[c].snap.website
          chosen    == req[c].updates["email"]
      IN  \E i \in 1..Len(remaining) :
            /\ remaining[i].addr = chosen
            /\ \A j \in 1..Len(remaining) :
                 DocumentedRank(remaining[j].addr, website) >= DocumentedRank(chosen, website)
            /\ \A j \in 1..(i - 1) :
                 DocumentedRank(remaining[j].addr, website) > DocumentedRank(chosen, website)

DocumentedReserved == { "p", "reel", "stories", "explore", "accounts", "about" }

\* C24: the Instagram URL an enrichment stores is that of a handle of the
\* page that is no reserved path segment, and a page with such a handle gets
\* one stored for a lead that had none, also when a reserved segment comes
\* first.
C24_Original ==
  \A c \in EnrichDone :
    LET found == SelectSeq(req[c].text.tokens, LAMBDA t : t.kind = "ig")
        real  == SelectSeq(found, LAMBDA t : t.handle \notin DocumentedReserved)
    IN  /\ "instagram_url" \in DOMAIN req[c].updates =>
             \E i \in 1..Len(real) :
               req[c].updates["instagram_url"] = InstagramUrl(real[i].handle)
        /\ (Falsy(req[c].snap.instagram_url) /\ Len(real) > 0) =>
             "instagram_url" \in DOMAIN req[c].updates

\* C28: every stored lead with a score has a score in 0..100, a grade among
\* A, B, C, D, F that is the documented grade of the score, and the
\* documented priority of the score.
C28_Original ==
  \A i \in 1..Len(leadsTable) :
    leadsTable[i].lead_score # Absent =>
      /\ leadsTable[i].lead_score \in 0..100
      /\ leadsTable[i].lead_grade \in { "A", "B", "C", "D", "F" }
      /\ leadsTable[i].lead_grade = DocumentedGrade(leadsTable[i].lead_score)
      /\ leadsTable[i].lead_priority = DocumentedPriority(leadsTable[i].lead_score)

\* C29: the write of an enrich request replaces no field of the lead that is
\* populated in the table at the moment of the write.
C29_Original ==
  [][ \A c \in Clients :
        (req[c].op = "enrich" /\ req[c].pc = "crawl" /\ req'[c].pc = "done") =>
          \A f \in { "email", "phone", "instagram_url" } :
            ~Falsy(leadsTable[req[c].id][f]) =>
              leadsTable'[req[c].id][f] = leadsTable[req[c].id][f]
    ]_vars

====
